---------------------------- MODULE Spec2Model ----------------------------
(***************************************************************************)
(* A model of the threa library: Event flags with on_set callbacks, the    *)
(* lazily created flags of a Runnable, ThreadBase.run (HasThread /         *)
(* IsThread), HasRunnables and ThreadQueue.                                *)
(*                                                                         *)
(* Threads are interleaved at the granularity of one access to shared      *)
(* state: every step reads, sets or clears at most one flag (a             *)
(* threading.Event takes its lock), the callbacks of on_set run afterwards *)
(* on the calling thread, and a callback's test reads one flag per step.   *)
(* _Event.__get__ takes no lock: a thread that finds the attribute empty   *)
(* stores a new Event in a later step, over whatever another thread has    *)
(* stored meanwhile.                                                       *)
(*                                                                         *)
(* Object 0 is the collection (HasRunnables / ThreadQueue); objects        *)
(* 1..thread_count are its runnables.  Thread 0 is the caller; thread w    *)
(* is the threading.Thread of runnable w.  The Event that thread c made    *)
(* for the flag f of object o is identified by (f, o, c).                  *)
(*                                                                         *)
(* Three parts of the library are used from one thread only and are        *)
(* modelled call by call: a collection of plain Runnables, a Runnable or   *)
(* Wrapper in a scoped block (object 1 is then the wrapped object), and an *)
(* Event on its own with the callbacks of its on_set list.                 *)
(*                                                                         *)
(* ThreadQueue.__post_init__ passes join_on_exit to HasThread, whose       *)
(* constructor has no such parameter (TypeError when thread_count > 0).    *)
(* The model takes the pool with its workers in place, each a              *)
(* HasThread(callback=self._callback, exception=self.exception) with       *)
(* looping = False, as a ThreadQueue made with thread_count = 0 and given  *)
(* its runnables afterwards is.                                            *)
(***************************************************************************)
EXTENDS Integers, Sequences, FiniteSets, TLC

VARIABLES
    kind,          \* "pool": ThreadQueue, "thread": one HasThread, "plain": Runnables of
                   \* Runnable, "runnable" / "wrapper": one in a scoped block, "event": an Event
    thread_count,  \* ThreadQueue.thread_count / len(runnables)
    exception,     \* whether an exception handler is configured
    looping,       \* ThreadBase.looping
    preRunRaises,  \* whether the pre_run of a subclass raises
    join_on_exit,  \* Runnable.join_on_exit
    wrapped,       \* the methods the object inside a Wrapper has
    maxsize,       \* ThreadQueue.maxsize
    callbacks,     \* Event.on_set of an Event on its own: what each callback does when called
    pc,            \* pc[t]: where thread t is
    idx,           \* idx[t]: the loop variable of the for loop thread t is in
    scan,          \* scan[t]: the object whose flag the test of a callback reads next
    cont,          \* cont[t]: where t continues after the on_set callbacks
    sret,          \* sret[t]: where t continues after HasRunnables.stop()
    fresh,         \* fresh[t]: where t is in _Event.__get__
    waiting,       \* waiting[t]: the maker of the Event t is blocked on in wait()
    event,         \* event[f][o]: the maker of the Event in the attribute of flag f of o, or None
    flag,          \* flag[f][o][c]: whether the Event (f, o, c) is set
    on_set,        \* on_set[f][o]: the maker of the Event of o that holds the collection's callback, or None
    called,        \* the caller's last call (plain Runnables, Event); exc_type of a scoped block
    trace,         \* the calls made on the objects (the callbacks invoked, for an Event), in order
    queue,         \* ThreadQueue.queue
    item,          \* item[w]: the item worker w holds
    nput,          \* number of items put so far
    delivered,     \* history: delivered[i]: invocations of the user callback with item i
    raised,        \* history: raised[w]: the item whose callback raised on w, or 0
    handled,       \* history: handled[w]: the exceptions passed to the handler on w
    lateCall,      \* history: lateCall[w]: w invoked the user callback after its fault
    calls,         \* history: invocations of the callback of a thread on its own
    finishCalled,  \* history: the caller has called finish()
    faultAt,       \* history: invocations begun when the first one raised (it included), or 0
    stopCalled,    \* history: the caller has called stop()
    handlerRaised, \* history: handlerRaised[w]: the exception handler raised on w
    stopAt         \* history: the invocation in which the callback of a thread called stop(), or 0

cfgVars ==
    <<kind, thread_count, exception, looping, preRunRaises, join_on_exit, wrapped, maxsize,
      callbacks>>
obsVars == <<on_set, called, trace>>
ctlVars == <<pc, idx, scan, cont, sret, waiting>>
flagVars == <<event, flag>>
queueVars == <<queue, item, nput>>
histVars == <<delivered, raised, handled, lateCall, calls, finishCalled, faultAt, stopCalled,
             handlerRaised, stopAt>>
vars == <<cfgVars, obsVars, ctlVars, fresh, flagVars, queueVars, histVars>>

\* Bounds of the model.
MaxThreads == 2
MaxItems == 2
MaxCalls == 3
MaxCallbacks == 4
MaxSize == 2

SENTINEL_MESSAGE == 0
Items == 1..MaxItems
Messages == Items \cup {SENTINEL_MESSAGE}
Objects == 0..MaxThreads
Threads == 0..MaxThreads
runnables == 1..thread_count

\* getattr(obj, self.name, None): the attribute holds no Event yet
None == -1

\* The flags of a Runnable: running = _Event(), stopped = _Event()
Flags == {"running", "stopped"}

\* Event.__bool__ / is_set, of the Event in the attribute of flag f of o; a
\* reader that finds the attribute empty makes an Event, which is not set.
Value(f, o) == event[f][o] # None /\ flag[f][o][event[f][o]]

\* o.running and o.stopped as a reader finds them.
running == [o \in Objects |-> Value("running", o)]
stopped == [o \in Objects |-> Value("stopped", o)]

\* Event.__bool__ / is_set
IsSet(flg, o) == flg[o]

\* HasRunnables._on_start: the test, on the running flags
OnStartTest(run) == ~IsSet(run, 0) /\ \A r \in runnables : IsSet(run, r)

\* HasRunnables._on_stop: the test, on the stopped flags
OnStopTest(stp) == ~IsSet(stp, 0) /\ \A r \in runnables : IsSet(stp, r)

\* for r in self.runnables
InOrder(n) == [k \in 1..n |-> k]

\* A variant of Reversed that visits the runnables first to last.
Reversed_forward(n) == [k \in 1..n |-> k]

\* for r in reversed(self.runnables)
Reversed(n) == [k \in 1..n |-> n + 1 - k]

\* The order in which start, stop, finish and join of HasRunnables visit
\* the runnables.
StartOrder == InOrder(thread_count)
StopOrder == Reversed(thread_count)
FinishOrder == Reversed(thread_count)
JoinOrder == Reversed(thread_count)

-----------------------------------------------------------------------------
\* _Event.__get__: every access to o.running or o.stopped goes through it.

\* The steps that access a flag, by the place of the thread.
AccessPcs ==
    {"m_append_running", "m_append_stopped", "t_started", "pre_run", "loop", "self_stop",
     "user_stop", "set_stopped", "cb_wait", "cb_loop", "stop_clear", "stop_child",
     "on_start_test", "on_start_call", "on_stop_test", "on_stop_clear", "on_stop_set"}

\* The flag thread t accesses next.
AccessFlag(t) ==
    IF pc[t] \in {"m_append_stopped", "set_stopped", "on_stop_test", "on_stop_set"}
    THEN "stopped" ELSE "running"

\* The object whose flag thread t accesses next.
AccessObj(t) ==
    CASE pc[t] \in {"m_append_running", "m_append_stopped"} -> StartOrder[idx[t]]
      [] pc[t] \in {"pre_run", "loop", "self_stop", "user_stop", "set_stopped"} -> t
      [] pc[t] = "t_started" -> 1
      [] pc[t] = "stop_child" -> StopOrder[idx[t]]
      [] pc[t] \in {"on_start_test", "on_stop_test"} -> scan[t]
      [] OTHER -> 0

\* event = getattr(obj, self.name, None) finds no Event
Get_none(t) ==
    /\ pc[t] \in AccessPcs
    /\ fresh[t] = "no"
    /\ event[AccessFlag(t)][AccessObj(t)] = None
    /\ fresh' = [fresh EXCEPT ![t] = "none_read"]
    /\ UNCHANGED <<cfgVars, obsVars, ctlVars, flagVars, queueVars, histVars>>

\* setattr(obj, self.name, event := Event()); return event
Get_setattr(t) ==
    /\ fresh[t] = "none_read"
    /\ event' = [event EXCEPT ![AccessFlag(t)][AccessObj(t)] = t]
    /\ fresh' = [fresh EXCEPT ![t] = "holding"]
    /\ UNCHANGED <<cfgVars, obsVars, ctlVars, flag, queueVars, histVars>>

\* __get__ has returned an Event to thread t: the one t has just made, or
\* the one it found in the attribute.
Ready(t) ==
    \/ fresh[t] = "holding"
    \/ fresh[t] = "no" /\ event[AccessFlag(t)][AccessObj(t)] # None

\* The maker of the Event __get__ returned to t.
Ev(t) == IF fresh[t] = "holding" THEN t ELSE event[AccessFlag(t)][AccessObj(t)]

\* Event.is_set of that Event
Reads(t) == flag[AccessFlag(t)][AccessObj(t)][Ev(t)]

\* threading.Event.set / clear of that Event
Sets(t, v) == flag' = [flag EXCEPT ![AccessFlag(t)][AccessObj(t)][Ev(t)] = v]

\* The access of t is over.
Got(t) == fresh' = [fresh EXCEPT ![t] = "no"]

\* [c() for c in self.on_set]: that Event holds the collection's callback
\* (HasRunnables.start appends it; a runnable on its own has none).
HasCallbacks(t) == on_set[AccessFlag(t)][AccessObj(t)] = Ev(t)

\* Where a thread goes after a set()/clear() of a running flag.
AfterRunningEvent(t, k) == IF HasCallbacks(t) THEN "on_start_test" ELSE k

\* Event.set(): Condition.notify_all wakes every thread blocked in wait() on
\* that Event.
Woken(t, next) ==
    [u \in Threads |-> IF u = t THEN next
                       ELSE IF pc[u] = "cb_waiting" /\ waiting[u] = Ev(t) THEN "cb_loop"
                       ELSE pc[u]]

InitPool ==
    /\ kind = "pool"
    /\ thread_count \in 1..MaxThreads
    /\ exception \in BOOLEAN
    /\ looping = FALSE
    /\ preRunRaises = FALSE
    /\ join_on_exit = TRUE
    /\ wrapped = {}
    /\ maxsize = 0
    /\ callbacks = <<>>
    /\ pc = [t \in Threads |-> IF t = 0 THEN "m_append_running"
                               ELSE IF t \in runnables THEN "new" ELSE "none"]
    /\ idx = [t \in Threads |-> IF t = 0 THEN 1 ELSE 0]
    /\ scan = [t \in Threads |-> 0]
    /\ cont = [t \in Threads |-> "none"]
    /\ sret = [t \in Threads |-> "none"]
    /\ fresh = [t \in Threads |-> "no"]
    /\ waiting = [t \in Threads |-> None]
    /\ event = [f \in Flags |-> [o \in Objects |-> None]]
    /\ flag = [f \in Flags |-> [o \in Objects |-> [c \in Threads |-> FALSE]]]
    /\ on_set = [f \in Flags |-> [o \in Objects |-> None]]
    /\ called = "none"
    /\ trace = <<>>
    /\ queue = <<>>
    /\ item = [t \in Threads |-> 0]
    /\ nput = 0
    /\ delivered = [i \in Messages |-> 0]
    /\ raised = [t \in Threads |-> 0]
    /\ handled = [t \in Threads |-> <<>>]
    /\ lateCall = [t \in Threads |-> FALSE]
    /\ calls = 0
    /\ finishCalled = FALSE
    /\ faultAt = 0
    /\ stopCalled = FALSE
    /\ handlerRaised = [t \in Threads |-> FALSE]
    /\ stopAt = 0

-----------------------------------------------------------------------------
\* The on_set callbacks of a runnable's running flag (Event.set / Event.clear
\* call them after the flag has changed): HasRunnables._on_start.

\* Where thread t resumes when the callbacks are done.  Inside
\* HasRunnables.stop the for loop goes on with the next runnable of
\* StopOrder, and stop returns after the last one.
ResumePc(t) ==
    IF cont[t] = "stop_next"
    THEN IF idx[t] < Len(StopOrder) THEN "stop_child" ELSE sret[t]
    ELSE cont[t]

ResumeIdx(t) == IF cont[t] = "stop_next" THEN idx[t] + 1 ELSE idx[t]

\* if not self.running and all(r.running for r in self.runnables): one flag
\* is read per step, the collection's first; the first one that fails ends
\* the test.
OnStart_test(t) ==
    /\ pc[t] = "on_start_test"
    /\ Ready(t)
    /\ Got(t)
    /\ IF Reads(t) = (scan[t] = 0)
       THEN /\ pc' = [pc EXCEPT ![t] = ResumePc(t)]
            /\ idx' = [idx EXCEPT ![t] = ResumeIdx(t)]
            /\ scan' = [scan EXCEPT ![t] = 0]
       ELSE IF scan[t] = thread_count
            THEN /\ pc' = [pc EXCEPT ![t] = "on_start_call"]
                 /\ scan' = [scan EXCEPT ![t] = 0]
                 /\ idx' = idx
            ELSE /\ scan' = [scan EXCEPT ![t] = scan[t] + 1]
                 /\ UNCHANGED <<pc, idx>>
    /\ UNCHANGED <<cfgVars, obsVars, cont, sret, waiting, flagVars, queueVars, histVars>>

\* super().start(): Runnable.start sets the collection's running flag.
OnStart_call(t) ==
    /\ pc[t] = "on_start_call"
    /\ Ready(t)
    /\ Got(t)
    /\ Sets(t, TRUE)
    /\ pc' = Woken(t, ResumePc(t))
    /\ idx' = [idx EXCEPT ![t] = ResumeIdx(t)]
    /\ UNCHANGED <<cfgVars, obsVars, scan, cont, sret, waiting, event, queueVars, histVars>>

\* The on_set callbacks of a runnable's stopped flag: HasRunnables._on_stop,
\* if not self.stopped and all(r.stopped for r in self.runnables), read one
\* flag per step.
OnStop_test(w) ==
    /\ pc[w] = "on_stop_test"
    /\ Ready(w)
    /\ Got(w)
    /\ IF Reads(w) = (scan[w] = 0)
       THEN /\ pc' = [pc EXCEPT ![w] = "done"]
            /\ scan' = [scan EXCEPT ![w] = 0]
       ELSE IF scan[w] = thread_count
            THEN /\ pc' = [pc EXCEPT ![w] = "on_stop_clear"]
                 /\ scan' = [scan EXCEPT ![w] = 0]
            ELSE /\ scan' = [scan EXCEPT ![w] = scan[w] + 1]
                 /\ pc' = pc
    /\ UNCHANGED <<cfgVars, obsVars, idx, cont, sret, waiting, flagVars, queueVars, histVars>>

\* super().stop(): Runnable.stop on the collection, self.running = False
OnStop_clear(w) ==
    /\ pc[w] = "on_stop_clear"
    /\ Ready(w)
    /\ Got(w)
    /\ Sets(w, FALSE)
    /\ pc' = [pc EXCEPT ![w] = "on_stop_set"]
    /\ UNCHANGED <<cfgVars, obsVars, idx, scan, cont, sret, waiting, event, queueVars, histVars>>

\* ... and self.stopped = True
OnStop_set(w) ==
    /\ pc[w] = "on_stop_set"
    /\ Ready(w)
    /\ Got(w)
    /\ Sets(w, TRUE)
    /\ pc' = [pc EXCEPT ![w] = "done"]
    /\ UNCHANGED <<cfgVars, obsVars, idx, scan, cont, sret, waiting, event, queueVars, histVars>>

-----------------------------------------------------------------------------
\* ThreadBase.run, on the thread of runnable w.

\* self.pre_run() raises: tb() logs and calls self.stop(), and run returns.
Run_pre_run_raises(w) ==
    /\ pc[w] = "pre_run"
    /\ preRunRaises
    /\ Ready(w)
    /\ Got(w)
    /\ Sets(w, FALSE)
    /\ pc' = [pc EXCEPT ![w] = AfterRunningEvent(w, "done")]
    /\ cont' = [cont EXCEPT ![w] = "done"]
    /\ UNCHANGED <<cfgVars, obsVars, idx, scan, sret, waiting, event, queueVars, histVars>>

\* self.pre_run() (it returns), then self.running.set()
Run_set_running(w) ==
    /\ pc[w] = "pre_run"
    /\ ~preRunRaises
    /\ Ready(w)
    /\ Got(w)
    /\ Sets(w, TRUE)
    /\ pc' = [pc EXCEPT ![w] = AfterRunningEvent(w, "loop")]
    /\ cont' = [cont EXCEPT ![w] = "loop"]
    /\ UNCHANGED <<cfgVars, obsVars, idx, scan, sret, waiting, event, queueVars, histVars>>

\* The callback ThreadBase.run calls: ThreadQueue._callback for a worker of
\* the queue, the user's callback for a thread on its own.
CallbackEntry == IF kind = "pool" THEN "cb_wait" ELSE "user_cb"

\* while self.running:
Run_loop(w) ==
    /\ pc[w] = "loop"
    /\ Ready(w)
    /\ Got(w)
    /\ pc' = [pc EXCEPT ![w] = IF Reads(w) THEN CallbackEntry ELSE "set_stopped"]
    /\ UNCHANGED <<cfgVars, obsVars, idx, scan, cont, sret, waiting, flagVars, queueVars, histVars>>

\* A variant of AfterCallbackReturns that goes on with the loop whatever
\* looping is.
AfterCallbackReturns_loop == "loop"

\* The else branch of the try: the callback returned.
AfterCallbackReturns == IF looping THEN "loop" ELSE "self_stop"

\* A variant of Handle in which the handler is never called.
Handle_skipped(h, e) == h

\* The handler's calls on worker w, for the exception e raised there.
Handle(h, e) == IF exception THEN Append(h, e) ELSE h

\* A variant of AfterFault in which the loop goes on without self.stop().
AfterFault_retry == "loop"

\* Every path of the except branch ends in self.stop(): else: self.stop()
\* after the handler, tb() otherwise.
AfterFault == "self_stop"

\* The except branch: self.exception(e) if there is a handler, which returns
\* or raises; tb() if there is none or the handler raises; then self.stop()
\* on every path (the handler's outcome changes what is logged only).
Run_except(w) ==
    /\ pc[w] = "except"
    /\ handled' = [handled EXCEPT ![w] = Handle(handled[w], raised[w])]
    /\ \E raises \in IF exception THEN BOOLEAN ELSE {FALSE} :
          handlerRaised' = [handlerRaised EXCEPT ![w] = raises]
    /\ pc' = [pc EXCEPT ![w] = AfterFault]
    /\ UNCHANGED <<cfgVars, obsVars, idx, scan, cont, sret, waiting, fresh, flagVars, queueVars,
                   delivered, raised, lateCall, calls, finishCalled, faultAt, stopCalled, stopAt>>

\* ThreadBase.stop on the runnable's own thread: self.running.clear()
Run_self_stop(w) ==
    /\ pc[w] = "self_stop"
    /\ Ready(w)
    /\ Got(w)
    /\ Sets(w, FALSE)
    /\ pc' = [pc EXCEPT ![w] = AfterRunningEvent(w, "loop")]
    /\ cont' = [cont EXCEPT ![w] = "loop"]
    /\ UNCHANGED <<cfgVars, obsVars, idx, scan, sret, waiting, event, queueVars, histVars>>

\* A variant of Run_set_stopped in which run returns without self.stopped.set().
Run_set_stopped_skipped(w) ==
    /\ pc[w] = "set_stopped"
    /\ Ready(w)
    /\ Got(w)
    /\ pc' = [pc EXCEPT ![w] = IF HasCallbacks(w) THEN "on_stop_test" ELSE "done"]
    /\ UNCHANGED <<cfgVars, obsVars, idx, scan, cont, sret, waiting, flagVars, queueVars, histVars>>

\* self.stopped.set(), the last statement of run
Run_set_stopped(w) ==
    /\ pc[w] = "set_stopped"
    /\ Ready(w)
    /\ Got(w)
    /\ Sets(w, TRUE)
    /\ pc' = [pc EXCEPT ![w] = IF HasCallbacks(w) THEN "on_stop_test" ELSE "done"]
    /\ UNCHANGED <<cfgVars, obsVars, idx, scan, cont, sret, waiting, event, queueVars, histVars>>

-----------------------------------------------------------------------------
\* ThreadQueue._callback, on the thread of worker w.

\* self.running.wait(): Event.wait returns at once if the flag is set and
\* blocks until a set() of that Event notifies it otherwise.
Callback_wait(w) ==
    /\ pc[w] = "cb_wait"
    /\ Ready(w)
    /\ Got(w)
    /\ IF Reads(w)
       THEN pc' = [pc EXCEPT ![w] = "cb_loop"] /\ waiting' = waiting
       ELSE pc' = [pc EXCEPT ![w] = "cb_waiting"] /\ waiting' = [waiting EXCEPT ![w] = Ev(w)]
    /\ UNCHANGED <<cfgVars, obsVars, idx, scan, cont, sret, flagVars, queueVars, histVars>>

\* while self.running:  (the loop's end is the callback's return)
Callback_loop(w) ==
    /\ pc[w] = "cb_loop"
    /\ Ready(w)
    /\ Got(w)
    /\ pc' = [pc EXCEPT ![w] = IF Reads(w) THEN "cb_get" ELSE AfterCallbackReturns]
    /\ UNCHANGED <<cfgVars, obsVars, idx, scan, cont, sret, waiting, flagVars, queueVars, histVars>>

\* item = self.queue.get(timeout=self.timeout); Empty: continue;
\* the sentinel: return.
AfterGet(i) == IF i = SENTINEL_MESSAGE THEN AfterCallbackReturns ELSE "cb_user"

Callback_get(w) ==
    /\ pc[w] = "cb_get"
    /\ IF queue = <<>>
       THEN /\ pc' = [pc EXCEPT ![w] = "cb_loop"]
            /\ UNCHANGED <<queue, item>>
       ELSE /\ item' = [item EXCEPT ![w] = Head(queue)]
            /\ queue' = Tail(queue)
            /\ pc' = [pc EXCEPT ![w] = AfterGet(Head(queue))]
    /\ UNCHANGED <<cfgVars, obsVars, idx, scan, cont, sret, waiting, fresh, flagVars, nput,
                   histVars>>

\* Some invocation of the user's callback has raised.
Faulted == \E u \in Threads : raised[u] # 0

RECURSIVE Sum(_, _)
Sum(f, S) == IF S = {} THEN 0 ELSE LET x == CHOOSE y \in S : TRUE IN f[x] + Sum(f, S \ {x})

\* The number of invocations of the user's callback so far.
Invocations == Sum(delivered, Messages)

\* A variant of OnCallbackFault in which the exception goes on without self.stop().
OnCallbackFault_no_stop == "except"

\* except Exception: self.stop(); raise: the worker calls the stop() of the
\* ThreadQueue before the exception goes on to ThreadBase.run.
OnCallbackFault == "stop_clear"

\* self.callback(item); the user's callback returns or raises.
Callback_user(w) ==
    /\ pc[w] = "cb_user"
    /\ delivered' = [delivered EXCEPT ![item[w]] = @ + 1]
    /\ lateCall' = [lateCall EXCEPT ![w] = @ \/ raised[w] # 0]
    /\ \E raises \in BOOLEAN :
          IF raises
          THEN /\ raised' = [raised EXCEPT ![w] = item[w]]
               /\ faultAt' = IF Faulted THEN faultAt ELSE Invocations + 1
               /\ pc' = [pc EXCEPT ![w] = OnCallbackFault]
               /\ sret' = [sret EXCEPT ![w] = "except"]
          ELSE /\ pc' = [pc EXCEPT ![w] = "cb_loop"]
               /\ UNCHANGED <<raised, sret, faultAt>>
    /\ UNCHANGED <<cfgVars, obsVars, idx, scan, cont, waiting, fresh, flagVars, queueVars,
                   handled, calls, finishCalled, stopCalled, handlerRaised, stopAt>>

-----------------------------------------------------------------------------
\* HasRunnables.stop, on thread t (the caller, or a worker whose callback
\* raised).

\* self.running.clear()
Stop_clear(t) ==
    /\ pc[t] = "stop_clear"
    /\ Ready(t)
    /\ Got(t)
    /\ Sets(t, FALSE)
    /\ idx' = [idx EXCEPT ![t] = 1]
    /\ pc' = [pc EXCEPT ![t] = IF StopOrder = <<>> THEN sret[t] ELSE "stop_child"]
    /\ UNCHANGED <<cfgVars, obsVars, scan, cont, sret, waiting, event, queueVars, histVars>>

\* r.stop() of a worker: ThreadBase.stop, self.running.clear()
Stop_child(t) ==
    /\ pc[t] = "stop_child"
    /\ Ready(t)
    /\ Got(t)
    /\ Sets(t, FALSE)
    /\ IF HasCallbacks(t)
       THEN /\ pc' = [pc EXCEPT ![t] = "on_start_test"]
            /\ idx' = idx
       ELSE /\ pc' = [pc EXCEPT ![t] = IF idx[t] < Len(StopOrder) THEN "stop_child" ELSE sret[t]]
            /\ idx' = [idx EXCEPT ![t] = idx[t] + 1]
    /\ cont' = [cont EXCEPT ![t] = "stop_next"]
    /\ UNCHANGED <<cfgVars, obsVars, scan, sret, waiting, event, queueVars, histVars>>

-----------------------------------------------------------------------------
\* The caller of a ThreadQueue: start(), then put(), stop() and finish(),
\* then join().

\* HasRunnables.start, for r in self.runnables:
\* r.running.on_set.append(self._on_start)
Start_append_running ==
    /\ pc[0] = "m_append_running"
    /\ Ready(0)
    /\ Got(0)
    /\ on_set' = [on_set EXCEPT !["running"][AccessObj(0)] = Ev(0)]
    /\ pc' = [pc EXCEPT ![0] = "m_append_stopped"]
    /\ UNCHANGED <<cfgVars, called, trace, idx, scan, cont, sret, waiting, flagVars, queueVars,
                   histVars>>

\* r.stopped.on_set.append(self._on_stop)
Start_append_stopped ==
    /\ pc[0] = "m_append_stopped"
    /\ Ready(0)
    /\ Got(0)
    /\ on_set' = [on_set EXCEPT !["stopped"][AccessObj(0)] = Ev(0)]
    /\ pc' = [pc EXCEPT ![0] = "m_start"]
    /\ UNCHANGED <<cfgVars, called, trace, idx, scan, cont, sret, waiting, flagVars, queueVars,
                   histVars>>

\* r.start()  (HasThread.start: self.thread.start())
Start_child ==
    /\ pc[0] = "m_start"
    /\ pc' = [pc EXCEPT ![StartOrder[idx[0]]] = "pre_run",
                        ![0] = IF idx[0] = Len(StartOrder) THEN "m_run" ELSE "m_append_running"]
    /\ idx' = [idx EXCEPT ![0] = idx[0] + 1]
    /\ UNCHANGED <<cfgVars, obsVars, scan, cont, sret, waiting, fresh, flagVars, queueVars,
                   histVars>>

\* A variant of QueuePut: a queue that hands out the newest entry first.
QueuePut_lifo(q, x) == <<x>> \o q

\* queue.Queue.put: first in, first out
QueuePut(q, x) == Append(q, x)

\* queue.Queue.put(item) with no timeout returns once the queue has room:
\* always when maxsize is 0, else when it holds fewer than maxsize entries.
HasRoom == maxsize = 0 \/ Len(queue) < maxsize

\* ThreadQueue.put
Put ==
    /\ pc[0] = "m_run"
    /\ nput < MaxItems
    /\ HasRoom
    /\ nput' = nput + 1
    /\ queue' = QueuePut(queue, nput + 1)
    /\ UNCHANGED <<cfgVars, obsVars, ctlVars, fresh, flagVars, item, histVars>>

\* stop() called by the caller
Call_stop ==
    /\ pc[0] \in {"m_run", "m_finished"}
    /\ sret' = [sret EXCEPT ![0] = pc[0]]
    /\ pc' = [pc EXCEPT ![0] = "stop_clear"]
    /\ stopCalled' = TRUE
    /\ UNCHANGED <<cfgVars, obsVars, idx, scan, cont, waiting, fresh, flagVars, queueVars,
                   delivered, raised, handled, lateCall, calls, finishCalled, faultAt, handlerRaised, stopAt>>

\* ThreadQueue.finish is called
Call_finish ==
    /\ pc[0] = "m_run"
    /\ pc' = [pc EXCEPT ![0] = "m_finish"]
    /\ idx' = [idx EXCEPT ![0] = 1]
    /\ UNCHANGED <<cfgVars, obsVars, scan, cont, sret, waiting, fresh, flagVars, queueVars,
                   histVars>>

\* for _ in self.runnables: self.put(_SENTINEL_MESSAGE); then
\* super().finish(): r.finish() of every worker, ThreadBase.finish: pass
Finish_put ==
    /\ pc[0] = "m_finish"
    /\ HasRoom
    /\ queue' = QueuePut(queue, SENTINEL_MESSAGE)
    /\ idx' = [idx EXCEPT ![0] = idx[0] + 1]
    /\ pc' = [pc EXCEPT ![0] = IF idx[0] = thread_count THEN "m_finished" ELSE "m_finish"]
    /\ UNCHANGED <<cfgVars, obsVars, scan, cont, sret, waiting, fresh, flagVars, item, nput,
                   histVars>>

\* HasRunnables.join is called
Call_join ==
    /\ pc[0] = "m_finished"
    /\ pc' = [pc EXCEPT ![0] = "m_join"]
    /\ idx' = [idx EXCEPT ![0] = 1]
    /\ UNCHANGED <<cfgVars, obsVars, scan, cont, sret, waiting, fresh, flagVars, queueVars,
                   histVars>>

\* for r in reversed(self.runnables): r.join()  (Thread.join returns when
\* the thread has ended)
Join_child ==
    /\ pc[0] = "m_join"
    /\ pc[JoinOrder[idx[0]]] = "done"
    /\ idx' = [idx EXCEPT ![0] = idx[0] + 1]
    /\ pc' = [pc EXCEPT ![0] = IF idx[0] = Len(JoinOrder) THEN "m_joined" ELSE "m_join"]
    /\ UNCHANGED <<cfgVars, obsVars, scan, cont, sret, waiting, fresh, flagVars, queueVars,
                   histVars>>

-----------------------------------------------------------------------------
Next ==
    \/ Start_append_running
    \/ Start_append_stopped
    \/ Start_child
    \/ Put
    \/ Call_finish
    \/ Finish_put
    \/ Call_join
    \/ Join_child
    \/ \E t \in Threads : Get_none(t)
    \/ \E t \in Threads : Get_setattr(t)
    \/ \E w \in runnables : Run_set_running(w)
    \/ \E w \in runnables : Run_loop(w)
    \/ \E w \in runnables : Run_except(w)
    \/ \E w \in runnables : Run_self_stop(w)
    \/ \E w \in runnables : Run_set_stopped(w)
    \/ \E w \in runnables : OnStop_test(w)
    \/ \E w \in runnables : OnStop_clear(w)
    \/ \E w \in runnables : OnStop_set(w)
    \/ \E w \in runnables : Callback_wait(w)
    \/ \E w \in runnables : Callback_loop(w)
    \/ \E w \in runnables : Callback_get(w)
    \/ \E w \in runnables : Callback_user(w)
    \/ \E t \in Threads : OnStart_test(t)
    \/ \E t \in Threads : OnStart_call(t)
    \/ \E t \in Threads : Stop_clear(t)
    \/ \E t \in Threads : Stop_child(t)

-----------------------------------------------------------------------------
\* A HasThread (or IsThread) on its own: runnable 1, with the user's
\* callback and no on_set callbacks.

\* The user's callback returns, raises, or calls self.stop() and returns.
Thread_callback(w) ==
    /\ pc[w] = "user_cb"
    /\ calls < MaxCalls
    /\ calls' = calls + 1
    /\ lateCall' = [lateCall EXCEPT ![w] = @ \/ raised[w] # 0]
    /\ \E outcome \in {"returns", "raises", "stops"} :
          /\ pc' = [pc EXCEPT ![w] = IF outcome = "raises" THEN "except"
                                     ELSE IF outcome = "stops" THEN "user_stop"
                                     ELSE AfterCallbackReturns]
          /\ raised' = [raised EXCEPT ![w] = IF outcome = "raises" THEN calls + 1 ELSE @]
          /\ stopAt' = IF outcome = "stops" THEN calls + 1 ELSE stopAt
    /\ UNCHANGED <<cfgVars, obsVars, idx, scan, cont, sret, waiting, fresh, flagVars, queueVars,
                   delivered, handled, finishCalled, faultAt, stopCalled, handlerRaised>>

\* self.stop() inside the user's callback: self.running.clear()
Thread_callback_stop(w) ==
    /\ pc[w] = "user_stop"
    /\ Ready(w)
    /\ Got(w)
    /\ Sets(w, FALSE)
    /\ pc' = [pc EXCEPT ![w] = AfterCallbackReturns]
    /\ UNCHANGED <<cfgVars, obsVars, idx, scan, cont, sret, waiting, event, queueVars, histVars>>

\* The caller is between two calls.
Idle == fresh[0] = "no"

\* HasThread.start: self.thread.start()
Thread_start ==
    /\ pc[0] = "t_new"
    /\ pc' = [pc EXCEPT ![0] = "t_started", ![1] = "pre_run"]
    /\ UNCHANGED <<cfgVars, obsVars, idx, scan, cont, sret, waiting, fresh, flagVars, queueVars,
                   histVars>>

\* ThreadBase.stop, called by the caller: self.running.clear()
Thread_stop ==
    /\ pc[0] = "t_started"
    /\ Ready(0)
    /\ Got(0)
    /\ Sets(0, FALSE)
    /\ stopCalled' = TRUE
    /\ UNCHANGED <<cfgVars, obsVars, ctlVars, event, queueVars,
                   delivered, raised, handled, lateCall, calls, finishCalled, faultAt, handlerRaised, stopAt>>

\* ThreadBase.finish: pass
Thread_finish ==
    /\ pc[0] = "t_started"
    /\ Idle
    /\ finishCalled' = TRUE
    /\ UNCHANGED <<cfgVars, obsVars, ctlVars, fresh, flagVars, queueVars,
                   delivered, raised, handled, lateCall, calls, faultAt, stopCalled, handlerRaised, stopAt>>

\* HasThread.join: self.thread.join()
Thread_join ==
    /\ pc[0] = "t_started"
    /\ Idle
    /\ pc[1] = "done"
    /\ pc' = [pc EXCEPT ![0] = "t_joined"]
    /\ UNCHANGED <<cfgVars, obsVars, idx, scan, cont, sret, waiting, fresh, flagVars, queueVars,
                   histVars>>

InitThread ==
    /\ kind = "thread"
    /\ thread_count = 1
    /\ exception \in BOOLEAN
    /\ looping \in BOOLEAN
    /\ preRunRaises \in BOOLEAN
    /\ join_on_exit = TRUE
    /\ wrapped = {}
    /\ maxsize = 0
    /\ callbacks = <<>>
    /\ pc = [t \in Threads |-> IF t = 0 THEN "t_new" ELSE IF t = 1 THEN "new" ELSE "none"]
    /\ idx = [t \in Threads |-> 0]
    /\ scan = [t \in Threads |-> 0]
    /\ cont = [t \in Threads |-> "none"]
    /\ sret = [t \in Threads |-> "none"]
    /\ fresh = [t \in Threads |-> "no"]
    /\ waiting = [t \in Threads |-> None]
    /\ event = [f \in Flags |-> [o \in Objects |-> None]]
    /\ flag = [f \in Flags |-> [o \in Objects |-> [c \in Threads |-> FALSE]]]
    /\ on_set = [f \in Flags |-> [o \in Objects |-> None]]
    /\ called = "none"
    /\ trace = <<>>
    /\ queue = <<>>
    /\ item = [t \in Threads |-> 0]
    /\ nput = 0
    /\ delivered = [i \in Messages |-> 0]
    /\ raised = [t \in Threads |-> 0]
    /\ handled = [t \in Threads |-> <<>>]
    /\ lateCall = [t \in Threads |-> FALSE]
    /\ calls = 0
    /\ finishCalled = FALSE
    /\ faultAt = 0
    /\ stopCalled = FALSE
    /\ handlerRaised = [t \in Threads |-> FALSE]
    /\ stopAt = 0

NextThread ==
    \/ Thread_start
    \/ Thread_stop
    \/ Thread_finish
    \/ Thread_join
    \/ \E t \in {0, 1} : Get_none(t)
    \/ \E t \in {0, 1} : Get_setattr(t)
    \/ Run_pre_run_raises(1)
    \/ Run_set_running(1)
    \/ Run_loop(1)
    \/ Thread_callback(1)
    \/ Thread_callback_stop(1)
    \/ Run_except(1)
    \/ Run_self_stop(1)
    \/ Run_set_stopped(1)

SpecThread == InitThread /\ [][NextThread]_vars

-----------------------------------------------------------------------------
\* A ThreadQueue used as the scoped block uses it: start(), put() any
\* number of times, finish(), join().
Spec == InitPool /\ [][Next]_vars

\* A ThreadQueue whose caller puts nothing and also calls stop(), at any
\* time after start() has returned.
NextStop ==
    \/ Start_append_running
    \/ Start_append_stopped
    \/ Start_child
    \/ Call_stop
    \/ Call_finish
    \/ Finish_put
    \/ Call_join
    \/ Join_child
    \/ \E t \in Threads : Get_none(t)
    \/ \E t \in Threads : Get_setattr(t)
    \/ \E w \in runnables : Run_set_running(w)
    \/ \E w \in runnables : Run_loop(w)
    \/ \E w \in runnables : Run_self_stop(w)
    \/ \E w \in runnables : Run_set_stopped(w)
    \/ \E w \in runnables : OnStop_test(w)
    \/ \E w \in runnables : OnStop_clear(w)
    \/ \E w \in runnables : OnStop_set(w)
    \/ \E w \in runnables : Callback_wait(w)
    \/ \E w \in runnables : Callback_loop(w)
    \/ \E w \in runnables : Callback_get(w)
    \/ \E t \in Threads : OnStart_test(t)
    \/ \E t \in Threads : OnStart_call(t)
    \/ \E t \in Threads : Stop_clear(t)
    \/ \E t \in Threads : Stop_child(t)

SpecStop == InitPool /\ [][NextStop]_vars

-----------------------------------------------------------------------------
\* A collection (Runnables) of plain Runnable objects, used from one thread:
\* every call runs to its end, the on_set callbacks included.  A state o of
\* the objects is a record of the flags, the on_set lists and the calls made
\* on the runnables.

Objs ==
    [running |-> running, stopped |-> stopped,
     on_set |-> [o \in Objects |-> on_set["running"][o] # None], trace |-> <<>>]

\* HasRunnables._on_start, and super().start()
P_on_start(o) ==
    IF OnStartTest(o.running) THEN [o EXCEPT !.running[0] = TRUE] ELSE o

\* HasRunnables._on_stop, and super().stop(): Runnable.stop
P_on_stop(o) ==
    IF OnStopTest(o.stopped) THEN [o EXCEPT !.running[0] = FALSE, !.stopped[0] = TRUE] ELSE o

\* Event.set / Event.clear of r.running, then its on_set callbacks
P_running(o, r, value) ==
    LET o1 == [o EXCEPT !.running[r] = value]
    IN  IF o.on_set[r] THEN P_on_start(o1) ELSE o1

\* Event.set of r.stopped, then its on_set callbacks
P_stopped(o, r) ==
    LET o1 == [o EXCEPT !.stopped[r] = TRUE]
    IN  IF o.on_set[r] THEN P_on_stop(o1) ELSE o1

\* Runnable.start: self.running = True
Runnable_start(o, r) == P_running(o, r, TRUE)

\* Runnable.stop: self.running = False; self.stopped = True
Runnable_stop(o, r) == P_stopped(P_running(o, r, FALSE), r)

\* Runnable.finish: self.stop()
Runnable_finish(o, r) == Runnable_stop(o, r)

\* Runnable.join does nothing
Runnable_join(o, r) == o

Logged(o, call, r) == [o EXCEPT !.trace = Append(@, <<call, r>>)]

\* HasRunnables.start: for r in self.runnables: append the callbacks, r.start()
RECURSIVE HasRunnables_start(_, _)
HasRunnables_start(o, order) ==
    IF order = <<>> THEN o
    ELSE LET r == Head(order)
             o1 == [o EXCEPT !.on_set[r] = TRUE]
         IN  HasRunnables_start(Logged(Runnable_start(o1, r), "start", r), Tail(order))

RECURSIVE StopEach(_, _)
StopEach(o, order) ==
    IF order = <<>> THEN o
    ELSE StopEach(Logged(Runnable_stop(o, Head(order)), "stop", Head(order)), Tail(order))

\* HasRunnables.stop: self.running.clear(), then r.stop() of each
HasRunnables_stop(o, order) ==
    StopEach(Logged([o EXCEPT !.running[0] = FALSE], "clear", 0), order)

\* HasRunnables.finish: r.finish() of each
RECURSIVE HasRunnables_finish(_, _)
HasRunnables_finish(o, order) ==
    IF order = <<>> THEN o
    ELSE HasRunnables_finish(Logged(Runnable_finish(o, Head(order)), "finish", Head(order)),
                             Tail(order))

\* HasRunnables.join: r.join() of each
RECURSIVE HasRunnables_join(_, _)
HasRunnables_join(o, order) ==
    IF order = <<>> THEN o
    ELSE HasRunnables_join(Logged(Runnable_join(o, Head(order)), "join", Head(order)),
                           Tail(order))

\* The caller's call leaves the objects in state o.  The caller is the only
\* thread: every Event is the one it made at its first access or would make
\* at its next, which is not set.
Becomes(o, call) ==
    /\ event' = [f \in Flags |-> [x \in Objects |-> 0]]
    /\ flag' = [f \in Flags |-> [x \in Objects |-> [c \in Threads |->
                   c = 0 /\ IF f = "running" THEN o.running[x] ELSE o.stopped[x]]]]
    /\ on_set' = [f \in Flags |-> [x \in Objects |-> IF o.on_set[x] THEN 0 ELSE None]]
    /\ trace' = o.trace
    /\ called' = call
    /\ UNCHANGED <<cfgVars, ctlVars, fresh, queueVars, histVars>>

Collection_start == Becomes(HasRunnables_start(Objs, StartOrder), "start")

Collection_stop == Becomes(HasRunnables_stop(Objs, StopOrder), "stop")

Collection_finish == Becomes(HasRunnables_finish(Objs, FinishOrder), "finish")

Collection_join == Becomes(HasRunnables_join(Objs, JoinOrder), "join")

\* The caller calls start(), stop() or finish() of one of the runnables.
Child_start(r) == Becomes(Runnable_start(Objs, r), "r.start")

Child_stop(r) == Becomes(Runnable_stop(Objs, r), "r.stop")

Child_finish(r) == Becomes(Runnable_finish(Objs, r), "r.finish")

InitRunnables ==
    /\ kind = "plain"
    /\ thread_count \in 0..MaxThreads
    /\ exception = FALSE
    /\ looping = FALSE
    /\ preRunRaises = FALSE
    /\ join_on_exit = TRUE
    /\ wrapped = {}
    /\ maxsize = 0
    /\ callbacks = <<>>
    /\ pc = [t \in Threads |-> "none"]
    /\ idx = [t \in Threads |-> 0]
    /\ scan = [t \in Threads |-> 0]
    /\ cont = [t \in Threads |-> "none"]
    /\ sret = [t \in Threads |-> "none"]
    /\ fresh = [t \in Threads |-> "no"]
    /\ waiting = [t \in Threads |-> None]
    /\ event = [f \in Flags |-> [o \in Objects |-> None]]
    /\ flag = [f \in Flags |-> [o \in Objects |-> [c \in Threads |-> FALSE]]]
    /\ on_set = [f \in Flags |-> [o \in Objects |-> None]]
    /\ called = "none"
    /\ trace = <<>>
    /\ queue = <<>>
    /\ item = [t \in Threads |-> 0]
    /\ nput = 0
    /\ delivered = [i \in Messages |-> 0]
    /\ raised = [t \in Threads |-> 0]
    /\ handled = [t \in Threads |-> <<>>]
    /\ lateCall = [t \in Threads |-> FALSE]
    /\ calls = 0
    /\ finishCalled = FALSE
    /\ faultAt = 0
    /\ stopCalled = FALSE
    /\ handlerRaised = [t \in Threads |-> FALSE]
    /\ stopAt = 0

NextRunnables ==
    \/ Collection_start
    \/ Collection_stop
    \/ Collection_finish
    \/ Collection_join
    \/ \E r \in runnables : Child_start(r)
    \/ \E r \in runnables : Child_stop(r)
    \/ \E r \in runnables : Child_finish(r)

SpecRunnables == InitRunnables /\ [][NextRunnables]_vars

-----------------------------------------------------------------------------
\* Properties of a ThreadQueue (Spec).

\* finish() and join() have returned.
Joined == pc[0] = "m_joined"

\* The run loop of w has ended.
LoopEnded(w) == pc[w] \in {"set_stopped", "on_stop_test", "on_stop_clear", "on_stop_set", "done"}

\* Worker w is in the dispatch loop of ThreadQueue._callback.
Dispatching(w) == pc[w] \in {"cb_wait", "cb_waiting", "cb_loop", "cb_get", "cb_user"}

\* C1: when the user callback never raises and stop() is not called, once
\* finish() and join() have returned every item put has been passed to the
\* user callback exactly once, and the sentinel never.
C1_DeliveredEqualsPut ==
    (Joined /\ ~Faulted /\ ~stopCalled) =>
        \A m \in Messages : delivered[m] = IF m \in 1..nput THEN 1 ELSE 0

C1_Witness ==
    Joined /\ ~Faulted /\ thread_count >= 2 /\ nput >= 2 /\ delivered[1] = 1 /\ delivered[2] = 1

C3_HandledOnce ==
    \A w \in runnables :
        /\ Len(handled[w]) <= 1
        /\ ~lateCall[w]
        /\ (exception /\ raised[w] # 0 /\ LoopEnded(w)) => handled[w] = <<raised[w]>>
        /\ (raised[w] # 0 /\ pc[w] = "done") => stopped[w]

C3_Witness ==
    \E w \in runnables :
        exception /\ raised[w] # 0 /\ pc[w] = "done" /\ handled[w] = <<raised[w]>>

\* C4: with a handler configured, if the k-th invocation of the user
\* callback raises, the invocations are exactly those of the first k items,
\* and after finish() and join() the pool's running flag is false.
C4_ExactlyFirstK ==
    (exception /\ Faulted) =>
        /\ \A m \in Messages : delivered[m] = IF m \in 1..faultAt THEN 1 ELSE 0
        /\ Joined => ~running[0]

\* C5: after finish() and join() have returned, running is false and
\* stopped is true for the pool and for every worker.
C5_AllStoppedAfterJoin ==
    Joined => \A o \in {0} \cup runnables : ~running[o] /\ stopped[o]

C5_Witness == Joined /\ thread_count >= 2 /\ stopped[0] /\ stopped[2]

\* C6: once stop() has returned on a started thread, its running flag is
\* false.
C6_StoppedStaysNotRunning == stopCalled => ~running[1]

\* C7: running and stopped are never both true, for the collection and for
\* every runnable.
C7_NotRunningAndStopped == \A o \in {0} \cup runnables : ~(running[o] /\ stopped[o])

\* C8: _on_start sets the collection's running flag only when it is not set
\* yet (it is set once) and every runnable's running flag is true.
C8_SetOnceWhenAllRunning ==
    [][\A t \in Threads :
          (pc[t] = "on_start_call" /\ pc'[t] # "on_start_call") =>
              (~running[0] /\ \A r \in runnables : running'[r])]_vars

-----------------------------------------------------------------------------
\* Properties of a collection of plain Runnables (SpecRunnables).

\* C9: once a call of stop() or finish(), of the collection or of a
\* runnable, has returned, the collection's stopped flag is true if and only
\* if the stopped flag of every runnable is true (of none, when there are no
\* runnables).
C9_StoppedIffAllStopped ==
    called \in {"stop", "finish", "r.stop", "r.finish"} =>
        (stopped[0] <=> \A r \in runnables : stopped[r])

\* The calls call makes on the runnables order[1], order[2], ...
Calls(call, order) == [k \in 1..Len(order) |-> <<call, order[k]>>]

\* C10: start() starts the runnables in insertion order; stop() clears the
\* collection's running flag and then stops the runnables in reverse
\* order; finish() and join() visit them in reverse order.
C10_VisitOrder ==
    LET n == thread_count
        forward == [k \in 1..n |-> k]
        backward == [k \in 1..n |-> n - k + 1]
    IN  /\ called = "start" => trace = Calls("start", forward)
        /\ called = "stop" => trace = <<<<"clear", 0>>>> \o Calls("stop", backward)
        /\ called = "finish" => trace = Calls("finish", backward)
        /\ called = "join" => trace = Calls("join", backward)

C10_Witness ==
    /\ thread_count >= 2
    /\ called = "stop"
    /\ Len(trace) = thread_count + 1
    /\ trace[1] = <<"clear", 0>>
    /\ trace[2] = <<"stop", thread_count>>
    /\ trace[Len(trace)] = <<"stop", 1>>

-----------------------------------------------------------------------------
\* A Runnable or a Wrapper in a scoped block (with lifecycle: ...), used from
\* one thread.  Object 0 is the lifecycle and object 1 the object inside a
\* Wrapper; trace holds the calls made on the two, called the exc_type the
\* block ends with.

\* exc_type of __exit__: no exception, KeyboardInterrupt, any other one.
ExcTypes == {"None", "KeyboardInterrupt", "Exception"}

\* The calls made on object obj so far, by name.
On(obj) ==
    LET s == SelectSeq(trace, LAMBDA c : c[2] = obj)
    IN  [k \in 1..Len(s) |-> s[k][1]]

\* A variant of Wrapped_call that calls the method whether it is there or not.
Wrapped_call_unchecked(o, name) == Logged(o, name, 1)

\* if (m := getattr(self.wrapped, name, None)) is not None: m()
Wrapped_call(o, name) == IF name \in wrapped THEN Logged(o, name, 1) ELSE o

\* self.start(): Runnable.start; Wrapper.start is super().start(), then the
\* start of the wrapped object
Self_start(o) ==
    LET o1 == Runnable_start(Logged(o, "start", 0), 0)
    IN  IF kind = "wrapper" THEN Wrapped_call(o1, "start") ELSE o1

\* self.stop(): Runnable.stop; Wrapper.stop is super().stop(), then the stop
\* of the wrapped object
Self_stop(o) ==
    LET o1 == Runnable_stop(Logged(o, "stop", 0), 0)
    IN  IF kind = "wrapper" THEN Wrapped_call(o1, "stop") ELSE o1

\* self.finish(): Runnable.finish is self.stop(); Wrapper has no finish of
\* its own
Self_finish(o) == Self_stop(Logged(o, "finish", 0))

\* self.join(): Runnable.join does nothing; Wrapper.join is super().join(),
\* then the join of the wrapped object
Self_join(o) ==
    LET o1 == Runnable_join(Logged(o, "join", 0), 0)
    IN  IF kind = "wrapper" THEN Wrapped_call(o1, "join") ELSE o1

\* A variant of ExitsInOrder that takes KeyboardInterrupt for a fault.
ExitsInOrder_none_only(exc_type) == exc_type = "None"

\* exc_type in (None, KeyboardInterrupt)
ExitsInOrder(exc_type) == exc_type \in {"None", "KeyboardInterrupt"}

\* Runnable.__enter__: self.start()
Runnable_enter(o) == Self_start(o)

\* Runnable.__exit__
Runnable_exit(o, exc_type) ==
    IF ExitsInOrder(exc_type)
    THEN LET o1 == Self_finish(o)
         IN  IF join_on_exit THEN Self_join(o1) ELSE o1
    ELSE Self_stop(o)

\* The objects as the scoped block finds them.
ScopeObjs == [Objs EXCEPT !.trace = trace]

\* The caller's step leaves the objects in state o and the caller at next.
ScopeBecomes(o, next) ==
    /\ event' = [f \in Flags |-> [x \in Objects |-> 0]]
    /\ flag' = [f \in Flags |-> [x \in Objects |-> [c \in Threads |->
                   c = 0 /\ IF f = "running" THEN o.running[x] ELSE o.stopped[x]]]]
    /\ trace' = o.trace
    /\ pc' = [pc EXCEPT ![0] = next]
    /\ UNCHANGED <<cfgVars, on_set, called, idx, scan, cont, sret, waiting, fresh, queueVars,
                   histVars>>

\* with lifecycle:
Scope_enter ==
    /\ pc[0] = "s_new"
    /\ ScopeBecomes(Runnable_enter(ScopeObjs), "s_body")

\* The block ends, with or without an exception.
Scope_body ==
    /\ pc[0] = "s_body"
    /\ \E exc_type \in ExcTypes : called' = exc_type
    /\ pc' = [pc EXCEPT ![0] = "s_exit"]
    /\ UNCHANGED <<cfgVars, on_set, trace, idx, scan, cont, sret, waiting, fresh, flagVars,
                   queueVars, histVars>>

\* __exit__(exc_type, ...)
Scope_exit ==
    /\ pc[0] = "s_exit"
    /\ ScopeBecomes(Runnable_exit(ScopeObjs, called), "s_done")

InitScope ==
    /\ kind \in {"runnable", "wrapper"}
    /\ thread_count = 0
    /\ exception = FALSE
    /\ looping = FALSE
    /\ preRunRaises = FALSE
    /\ join_on_exit \in BOOLEAN
    /\ wrapped \in IF kind = "wrapper" THEN SUBSET {"start", "stop", "join"} ELSE {{}}
    /\ maxsize = 0
    /\ callbacks = <<>>
    /\ pc = [t \in Threads |-> IF t = 0 THEN "s_new" ELSE "none"]
    /\ idx = [t \in Threads |-> 0]
    /\ scan = [t \in Threads |-> 0]
    /\ cont = [t \in Threads |-> "none"]
    /\ sret = [t \in Threads |-> "none"]
    /\ fresh = [t \in Threads |-> "no"]
    /\ waiting = [t \in Threads |-> None]
    /\ event = [f \in Flags |-> [o \in Objects |-> None]]
    /\ flag = [f \in Flags |-> [o \in Objects |-> [c \in Threads |-> FALSE]]]
    /\ on_set = [f \in Flags |-> [o \in Objects |-> None]]
    /\ called = "none"
    /\ trace = <<>>
    /\ queue = <<>>
    /\ item = [t \in Threads |-> 0]
    /\ nput = 0
    /\ delivered = [i \in Messages |-> 0]
    /\ raised = [t \in Threads |-> 0]
    /\ handled = [t \in Threads |-> <<>>]
    /\ lateCall = [t \in Threads |-> FALSE]
    /\ calls = 0
    /\ finishCalled = FALSE
    /\ faultAt = 0
    /\ stopCalled = FALSE
    /\ handlerRaised = [t \in Threads |-> FALSE]
    /\ stopAt = 0

NextScope ==
    \/ Scope_enter
    \/ Scope_body
    \/ Scope_exit

SpecScope == InitScope /\ [][NextScope]_vars

-----------------------------------------------------------------------------
\* Properties of a scoped block (SpecScope).

\* __exit__ has returned.
Exited == pc[0] = "s_done"

\* The calls __exit__ made on the lifecycle, the stop() that finish()
\* itself makes left out.
ExitCalls == SelectSeq(Tail(On(0)), LAMBDA c : c # "stop")

\* C11: entering calls start(); exiting with no exception or with
\* KeyboardInterrupt calls finish() and then, only if join_on_exit is true,
\* join(); exiting with any other exception calls stop() only: neither
\* finish() nor join() is called.
C11_ScopedCalls ==
    /\ pc[0] \in {"s_body", "s_exit"} => On(0) = <<"start">>
    /\ Exited =>
          /\ Head(On(0)) = "start"
          /\ IF called \in {"None", "KeyboardInterrupt"}
             THEN ExitCalls = IF join_on_exit THEN <<"finish", "join">> ELSE <<"finish">>
             ELSE Tail(On(0)) = <<"stop">>

C11_Witness ==
    /\ Exited
    /\ called = "KeyboardInterrupt"
    /\ join_on_exit
    /\ On(0) = <<"start", "finish", "stop", "join">>

-----------------------------------------------------------------------------
\* Properties of a thread on its own (SpecThread).

\* The caller's join() has returned.
ThreadJoined == pc[0] = "t_joined"

\* C12: if pre_run() raises, the callback is never invoked, running is never
\* set to true, and stopped is set when the run loop aborts: after join()
\* has returned stopped is true.
C12_PreRunFaultSetsStopped ==
    preRunRaises =>
        /\ calls = 0
        /\ ~running[1]
        /\ ThreadJoined => stopped[1]

\* The steps of the thread of runnable 1: ThreadBase.run from its first
\* statement to its last.
ThreadRuns ==
    \/ Get_none(1)
    \/ Get_setattr(1)
    \/ Run_pre_run_raises(1)
    \/ Run_set_running(1)
    \/ Run_loop(1)
    \/ Thread_callback(1)
    \/ Thread_callback_stop(1)
    \/ Run_except(1)
    \/ Run_self_stop(1)
    \/ Run_set_stopped(1)

\* A started threading.Thread is scheduled again and again until run
\* returns, whatever the caller does meanwhile.
SpecThreadFair == SpecThread /\ WF_vars(ThreadRuns)

\* C13: one callback fault always ends the run loop: with no handler, with a
\* handler that returns and with a handler that raises, the callback is
\* never invoked again after an invocation that raised (looping or not), and
\* stopped is set afterwards.
C13_FaultEndsLoop == [](~lateCall[1]) /\ (raised[1] # 0 ~> stopped[1])

C13_Witness ==
    /\ looping /\ exception /\ handlerRaised[1]
    /\ raised[1] # 0 /\ calls = raised[1]
    /\ pc[1] = "done" /\ stopped[1]

\* The caller has not begun a stop().
NoCallerStop == ~stopCalled /\ fresh[0] = "no"

C15_FinishClearsRunning == [][(finishCalled' /\ ~finishCalled) => ~running'[1]]_vars

-----------------------------------------------------------------------------
\* An Event on its own, with callbacks in on_set: callbacks[k] says whether
\* the k-th one returns or raises.  The Event is flag "running" of object 0;
\* trace holds the callbacks the last set() or clear() has invoked.

\* on_set lists of up to MaxCallbacks callbacks
CallbackLists ==
    UNION {[1..n -> {"returns", "raises"}] : n \in 0..MaxCallbacks}

\* Event.set: super().set(), then the list comprehension over self.on_set
\* begins
Event_set ==
    /\ pc[0] \in {"e_idle", "e_raised"}
    /\ flag' = [flag EXCEPT !["running"][0][0] = TRUE]
    /\ called' = "set"
    /\ trace' = <<>>
    /\ idx' = [idx EXCEPT ![0] = 1]
    /\ pc' = [pc EXCEPT ![0] = IF callbacks = <<>> THEN "e_idle" ELSE "e_callbacks"]
    /\ UNCHANGED <<cfgVars, on_set, scan, cont, sret, waiting, fresh, event, queueVars, histVars>>

\* Event.clear: super().clear(), then the same list comprehension
Event_clear ==
    /\ pc[0] \in {"e_idle", "e_raised"}
    /\ flag' = [flag EXCEPT !["running"][0][0] = FALSE]
    /\ called' = "clear"
    /\ trace' = <<>>
    /\ idx' = [idx EXCEPT ![0] = 1]
    /\ pc' = [pc EXCEPT ![0] = IF callbacks = <<>> THEN "e_idle" ELSE "e_callbacks"]
    /\ UNCHANGED <<cfgVars, on_set, scan, cont, sret, waiting, fresh, event, queueVars, histVars>>

\* [c() for c in self.on_set]: the next c() returns, or raises and the
\* exception leaves set() / clear()
Event_callback ==
    /\ pc[0] = "e_callbacks"
    /\ trace' = Append(trace, <<"callback", idx[0]>>)
    /\ idx' = [idx EXCEPT ![0] = idx[0] + 1]
    /\ pc' = [pc EXCEPT ![0] = IF callbacks[idx[0]] = "raises" THEN "e_raised"
                               ELSE IF idx[0] = Len(callbacks) THEN "e_idle"
                               ELSE "e_callbacks"]
    /\ UNCHANGED <<cfgVars, on_set, called, scan, cont, sret, waiting, fresh, flagVars,
                   queueVars, histVars>>

InitEvent ==
    /\ kind = "event"
    /\ thread_count = 0
    /\ exception = FALSE
    /\ looping = FALSE
    /\ preRunRaises = FALSE
    /\ join_on_exit = TRUE
    /\ wrapped = {}
    /\ maxsize = 0
    /\ callbacks \in CallbackLists
    /\ pc = [t \in Threads |-> IF t = 0 THEN "e_idle" ELSE "none"]
    /\ idx = [t \in Threads |-> 0]
    /\ scan = [t \in Threads |-> 0]
    /\ cont = [t \in Threads |-> "none"]
    /\ sret = [t \in Threads |-> "none"]
    /\ fresh = [t \in Threads |-> "no"]
    /\ waiting = [t \in Threads |-> None]
    /\ event = [f \in Flags |-> [o \in Objects |-> IF f = "running" /\ o = 0 THEN 0 ELSE None]]
    /\ flag = [f \in Flags |-> [o \in Objects |-> [c \in Threads |-> FALSE]]]
    /\ on_set = [f \in Flags |-> [o \in Objects |-> None]]
    /\ called = "none"
    /\ trace = <<>>
    /\ queue = <<>>
    /\ item = [t \in Threads |-> 0]
    /\ nput = 0
    /\ delivered = [i \in Messages |-> 0]
    /\ raised = [t \in Threads |-> 0]
    /\ handled = [t \in Threads |-> <<>>]
    /\ lateCall = [t \in Threads |-> FALSE]
    /\ calls = 0
    /\ finishCalled = FALSE
    /\ faultAt = 0
    /\ stopCalled = FALSE
    /\ handlerRaised = [t \in Threads |-> FALSE]
    /\ stopAt = 0

NextEvent ==
    \/ Event_set
    \/ Event_clear
    \/ Event_callback

SpecEvent == InitEvent /\ [][NextEvent]_vars

\* The last set() or clear() is over: it has returned or raised.
CallOver == pc[0] \in {"e_idle", "e_raised"} /\ called \in {"set", "clear"}

\* C16: a callback that raises does not corrupt the flag (after set() the
\* flag is true, after clear() false) and does not keep the callbacks
\* registered after it from being invoked for that call: every callback of
\* on_set has been invoked once, in order, when the call is over.
C16_CallbacksIsolated ==
    CallOver =>
        /\ running[0] = (called = "set")
        /\ trace = [k \in 1..Len(callbacks) |-> <<"callback", k>>]

-----------------------------------------------------------------------------
\* Properties of a Wrapper in a scoped block (SpecScope).

\* C17: a Wrapper around an object that has only stop and join, used in a
\* scoped block that exits normally (join_on_exit as Runnable gives it, true):
\* stop() is called on the wrapped object before join(), each exactly once,
\* and no method the object does not have (start) is ever called on it.
C17_WrapperStopThenJoin ==
    kind = "wrapper" =>
        /\ \A k \in 1..Len(On(1)) : On(1)[k] \in wrapped
        /\ (wrapped = {"stop", "join"} /\ Exited /\ called = "None" /\ join_on_exit) =>
              On(1) = <<"stop", "join">>

C17_Witness ==
    /\ kind = "wrapper" /\ wrapped = {"stop", "join"} /\ join_on_exit
    /\ Exited /\ called = "None"
    /\ On(1) = <<"stop", "join">>
    /\ On(0) = <<"start", "finish", "stop", "join">>

-----------------------------------------------------------------------------
\* Properties of the shutdown of a ThreadQueue (Spec, SpecStop).

\* The sentinels of finish() are behind every item in the queue.
SentinelsLast ==
    \A i, j \in 1..Len(queue) : (i < j /\ queue[i] = SENTINEL_MESSAGE) => queue[j] = SENTINEL_MESSAGE

\* C18: finish() enqueues thread_count sentinels behind the items put
\* before; when no callback faults, every worker dequeues exactly one
\* sentinel (none is left once join() has returned), every item is dequeued
\* before any sentinel, and every worker ends, so that join() returns: the
\* pool never comes to a standstill before that.
C18_SentinelEndsEveryWorker ==
    ~Faulted =>
        /\ SentinelsLast
        /\ pc[0] = "m_finished" => Len(queue) <= nput + thread_count
        /\ Joined => queue = <<>>
        /\ Joined \/ ENABLED Next

\* The steps of the workers' threads: ThreadBase.run with ThreadQueue._callback
\* and the callbacks of the flags.
WorkersRun ==
    \E w \in runnables :
        \/ Get_none(w)
        \/ Get_setattr(w)
        \/ Run_set_running(w)
        \/ Run_loop(w)
        \/ Run_except(w)
        \/ Run_self_stop(w)
        \/ Run_set_stopped(w)
        \/ OnStart_test(w)
        \/ OnStart_call(w)
        \/ OnStop_test(w)
        \/ OnStop_clear(w)
        \/ OnStop_set(w)
        \/ Callback_wait(w)
        \/ Callback_loop(w)
        \/ Callback_get(w)
        \/ Callback_user(w)
        \/ Stop_clear(w)
        \/ Stop_child(w)

\* stop() has been called after start() and has returned, and the caller
\* makes no other call.
StopReturned == stopCalled /\ pc[0] = "m_run" /\ fresh[0] = "no"

\* The steps of the caller inside a call of start(), stop() or finish().
CallerReturns ==
    \/ Start_append_running
    \/ Start_append_stopped
    \/ Start_child
    \/ Finish_put
    \/ Get_none(0)
    \/ Get_setattr(0)
    \/ OnStart_test(0)
    \/ OnStart_call(0)
    \/ Stop_clear(0)
    \/ Stop_child(0)

\* A thread is scheduled again and again as long as it can take a step: the
\* workers' threads, and the caller until its call returns.  Whether the
\* caller makes another call is up to the caller.
SpecStopFair == SpecStop /\ WF_vars(WorkersRun) /\ WF_vars(CallerReturns)

\* C19: once stop() has been called after start() and has returned, every
\* worker thread ends and sets stopped: none blocks for ever in the wait for
\* the pool's running flag, none polls the queue for ever.
C19_StopEndsEveryWorker ==
    StopReturned ~> \A w \in runnables : pc[w] = "done" /\ stopped[w]

-----------------------------------------------------------------------------
\* A ThreadQueue with a bounded queue (maxsize > 0): put() is a call that
\* returns when the queue has room.

\* ThreadQueue.put is called
Call_put ==
    /\ pc[0] = "m_run"
    /\ nput < MaxItems
    /\ pc' = [pc EXCEPT ![0] = "m_put"]
    /\ UNCHANGED <<cfgVars, obsVars, idx, scan, cont, sret, waiting, fresh, flagVars, queueVars,
                   histVars>>

\* self.queue.put(item) returns
Put_return ==
    /\ pc[0] = "m_put"
    /\ HasRoom
    /\ nput' = nput + 1
    /\ queue' = QueuePut(queue, nput + 1)
    /\ pc' = [pc EXCEPT ![0] = "m_run"]
    /\ UNCHANGED <<cfgVars, obsVars, idx, scan, cont, sret, waiting, fresh, flagVars, item,
                   histVars>>

InitBounded ==
    /\ kind = "pool"
    /\ thread_count \in 1..MaxThreads
    /\ exception \in BOOLEAN
    /\ looping = FALSE
    /\ preRunRaises = FALSE
    /\ join_on_exit = TRUE
    /\ wrapped = {}
    /\ maxsize \in 1..MaxSize
    /\ callbacks = <<>>
    /\ pc = [t \in Threads |-> IF t = 0 THEN "m_append_running"
                               ELSE IF t \in runnables THEN "new" ELSE "none"]
    /\ idx = [t \in Threads |-> IF t = 0 THEN 1 ELSE 0]
    /\ scan = [t \in Threads |-> 0]
    /\ cont = [t \in Threads |-> "none"]
    /\ sret = [t \in Threads |-> "none"]
    /\ fresh = [t \in Threads |-> "no"]
    /\ waiting = [t \in Threads |-> None]
    /\ event = [f \in Flags |-> [o \in Objects |-> None]]
    /\ flag = [f \in Flags |-> [o \in Objects |-> [c \in Threads |-> FALSE]]]
    /\ on_set = [f \in Flags |-> [o \in Objects |-> None]]
    /\ called = "none"
    /\ trace = <<>>
    /\ queue = <<>>
    /\ item = [t \in Threads |-> 0]
    /\ nput = 0
    /\ delivered = [i \in Messages |-> 0]
    /\ raised = [t \in Threads |-> 0]
    /\ handled = [t \in Threads |-> <<>>]
    /\ lateCall = [t \in Threads |-> FALSE]
    /\ calls = 0
    /\ finishCalled = FALSE
    /\ faultAt = 0
    /\ stopCalled = FALSE
    /\ handlerRaised = [t \in Threads |-> FALSE]
    /\ stopAt = 0

NextBounded ==
    \/ Start_append_running
    \/ Start_append_stopped
    \/ Start_child
    \/ Call_put
    \/ Put_return
    \/ Call_finish
    \/ Finish_put
    \/ Call_join
    \/ Join_child
    \/ \E t \in Threads : Get_none(t)
    \/ \E t \in Threads : Get_setattr(t)
    \/ \E w \in runnables : Run_set_running(w)
    \/ \E w \in runnables : Run_loop(w)
    \/ \E w \in runnables : Run_except(w)
    \/ \E w \in runnables : Run_self_stop(w)
    \/ \E w \in runnables : Run_set_stopped(w)
    \/ \E w \in runnables : OnStop_test(w)
    \/ \E w \in runnables : OnStop_clear(w)
    \/ \E w \in runnables : OnStop_set(w)
    \/ \E w \in runnables : Callback_wait(w)
    \/ \E w \in runnables : Callback_loop(w)
    \/ \E w \in runnables : Callback_get(w)
    \/ \E w \in runnables : Callback_user(w)
    \/ \E t \in Threads : OnStart_test(t)
    \/ \E t \in Threads : OnStart_call(t)
    \/ \E t \in Threads : Stop_clear(t)
    \/ \E t \in Threads : Stop_child(t)

SpecBounded == InitBounded /\ [][NextBounded]_vars

\* C20: with maxsize > 0 the queue never holds more than maxsize entries,
\* and every put() and every finish() called after start() returns: a call
\* in progress never finds the whole pool at a standstill, a faulted
\* callback and stopped workers included.
C20_PutAndFinishReturn ==
    /\ Len(queue) <= maxsize
    /\ pc[0] \in {"m_put", "m_finish"} => ENABLED NextBounded

=============================================================================
